---- MODULE Spec2Model ----
(***************************************************************************)
(* A model of the two programs of reward-bench that the specification      *)
(* describes:                                                              *)
(*   - the Inference Runner, rewardbench_lrpo.py (main), and               *)
(*   - the Sweep Submitter, scripts/submit_eval_jobs.py (module body).     *)
(* The two programs share no state; RunnerSpec and SubmitterSpec run one   *)
(* of them each, the other staying in its initial state.                   *)
(*                                                                         *)
(* Conventions.  A Python string that the code builds by concatenation is  *)
(* a sequence of chunks (TLA+ strings), concatenated with \o; a rational   *)
(* number is a pair <<numerator, denominator>>; a local variable that has  *)
(* not been assigned yet is absent from `bound`.                           *)
(***************************************************************************)
EXTENDS Integers, Sequences, FiniteSets, TLC

VARIABLES
    \* ---- Inference Runner (rewardbench_lrpo.py) ----
    args,             \* the parsed command line
    dataset,          \* the loaded dataset, in source order
    old_summary,      \* TRUE iff <output_dir><model>.json exists before the run
    old_all,          \* TRUE iff <output_dir><model>_all.jsonl exists before the run
    runner_pc,        \* position in main()
    dataloader,       \* the batches the DataLoader yields
    step,             \* number of batches the loop has completed
    results,          \* list of 0/1 outcomes
    scores_margin,    \* list of raw margins
    accuracy,         \* <<sum(results), len(results)>>
    results_grouped,  \* subset -> <<num_correct, num_total>>
    results_section,  \* section -> <<numerator, denominator>>
    bound,            \* the local variables of main() assigned so far
    summary,          \* the dict handed to json.dump, <<>> until it is built
    summary_file,     \* the file <output_dir><model>.json
    all_file,         \* the file <output_dir><model>_all.jsonl
    failed_at,        \* source line of the exception that ended the run, 0 if none
    \* ---- Sweep Submitter (scripts/submit_eval_jobs.py) ----
    sargs,            \* the parsed command line
    env_HF_TOKEN,     \* TRUE iff HF_TOKEN is set in the environment
    submit_pc,        \* position in the script
    configs,          \* the keys of the model-config mapping on disk, in file order
    files_read,       \* the configuration files read so far
    d1,               \* the job template
    models_to_evaluate, \* the keys of the configuration mapping, then the selection
    idx,              \* number of entries the for loop has taken
    seen,             \* the dpo flag of each entry taken, in order
    model,            \* the loop variable
    model_config,     \* configs[model]
    experiment_group, \* the experiment group of the current entry
    script,           \* the evaluation script of the current entry
    d,                \* the job document of the current entry
    fn,               \* the path of the current job document
    written,          \* the paths written, in order
    submitted,        \* the paths handed to `beaker experiment create`, in order
    submit_failed_at  \* source line of the exception that ended the run, 0 if none

runner_vars == <<args, dataset, old_summary, old_all, runner_pc, dataloader, step,
                 results, scores_margin, accuracy, results_grouped, results_section,
                 bound, summary, summary_file, all_file, failed_at>>

submit_vars == <<sargs, env_HF_TOKEN, submit_pc, configs, files_read, d1,
                 models_to_evaluate, idx, seen, model, model_config, experiment_group,
                 script, d, fn, written, submitted, submit_failed_at>>

vars == <<runner_vars, submit_vars>>

\* ------------------------------------------------------------------ bounds
MaxLen == 4        \* longest dataset
MaxBatch == 3      \* largest --batch_size
MaxModels == 2     \* most entries in the configuration mapping

\* ------------------------------------------------------------------ helpers
Min(a, b) == IF a < b THEN a ELSE b

RECURSIVE SumSeq(_)
SumSeq(s) == IF s = <<>> THEN 0 ELSE Head(s) + SumSeq(Tail(s))

RECURSIVE SumOver(_, _)
SumOver(S, f) ==
    IF S = {} THEN 0
    ELSE LET x == CHOOSE y \in S : TRUE IN f[x] + SumOver(S \ {x}, f)

RECURSIVE ProdOver(_, _)
ProdOver(S, f) ==
    IF S = {} THEN 1
    ELSE LET x == CHOOSE y \in S : TRUE IN f[x] * ProdOver(S \ {x}, f)

EmptyMap == [x \in {} |-> <<0, 1>>]

\* ================================================================ Runner

CoreDataset == "allenai/reward-bench"

\* The examples a dataset is drawn from.  The reward pipeline is an external
\* collaborator: an example carries the margin the model gives it.
Examples ==
    { [margin |-> 2,  subset |-> "alpacaeval-easy"],
      [margin |-> -1, subset |-> "alpacaeval-easy"],
      [margin |-> 0,  subset |-> "refusals-dangerous"],
      [margin |-> 5,  subset |-> "refusals-dangerous"] }

Datasets == UNION { [1..n -> Examples] : n \in 0..MaxLen }

RunnerArgs ==
    [ dataset : {CoreDataset, "other/prefs"},
      ref_model : BOOLEAN,       \* TRUE iff --ref_model was given
      batch_size : 1..MaxBatch,
      save_all : BOOLEAN ]

AbsentFile == [exists |-> FALSE, stale |-> FALSE, lines |-> <<>>]
StaleFile == [exists |-> TRUE, stale |-> TRUE, lines |-> <<>>]
InitialFile(old) == IF old THEN StaleFile ELSE AbsentFile


\* DataLoader with drop_last=True: a trailing partial batch is dropped.
DataLoader_drop_last(ds, bs) ==
    [k \in 1..(Len(ds) \div bs) |-> SubSeq(ds, (k - 1) * bs + 1, k * bs)]

\* DataLoader that does not keep the source order: batches over the reversed
\* dataset.
DataLoader_reordered(ds, bs) ==
    LET rev == [i \in 1..Len(ds) |-> ds[Len(ds) + 1 - i]]
    IN  [k \in 1..((Len(ds) + bs - 1) \div bs) |->
            SubSeq(rev, (k - 1) * bs + 1, Min(k * bs, Len(rev)))]

\* torch.utils.data.DataLoader(dataset, batch_size, shuffle=False,
\* drop_last=False): consecutive slices of batch_size examples, the last one
\* shorter when batch_size does not divide the length.
DataLoader(ds, bs) ==
    [k \in 1..((Len(ds) + bs - 1) \div bs) |->
        SubSeq(ds, (k - 1) * bs + 1, Min(k * bs, Len(ds)))]

\* torch.sum(u_chosen * v_rejected - u_rejected * v_chosen, dim=1)
\*     .cpu().numpy().tolist(): one margin per example of the batch, in order.
Logits(batch) == [i \in 1..Len(batch) |-> batch[i].margin]

\* The comparison written as >=.
Outcome_ge(logit) == IF logit >= 0 THEN 1 ELSE 0

\* results.append(1) if logit > 0 else results.append(0)
Outcome(logit) == IF logit > 0 THEN 1 ELSE 0

Outcomes(logits) == [i \in 1..Len(logits) |-> Outcome(logits[i])]

\* rewardbench.constants: per-subset weights and the section of each subset.
EXAMPLE_COUNTS == [t \in {"alpacaeval-easy", "alpacaeval-hard", "refusals-dangerous"} |->
                     IF t = "alpacaeval-hard" THEN 95 ELSE 100]

SUBSET_MAPPING == [ Chat |-> {"alpacaeval-easy", "alpacaeval-hard"},
                    Safety |-> {"refusals-dangerous"} ]

\* rewardbench.utils.calculate_scores_per_section: for every section, the
\* mean of the accuracies of its subsets present in metrics, weighted by
\* example_counts; 0 for a section none of whose subsets is present.
calculate_scores_per_section(example_counts, subset_mapping, metrics) ==
    [section \in DOMAIN subset_mapping |->
        LET tests == subset_mapping[section] \cap DOMAIN metrics
            total_examples == SumOver(tests, example_counts)
            D == ProdOver(tests, [t \in tests |-> metrics[t][2]])
            weighted == [t \in tests |->
                            example_counts[t] * metrics[t][1] * (D \div metrics[t][2])]
        IN  IF total_examples > 0
            THEN <<SumOver(tests, weighted), D * total_examples>>
            ELSE <<0, 1>>]

\* Lines 335-342: accuracy of each subset present in the data; row i of
\* out_dataset pairs results[i] with subsets[i].
GroupBySubset(res, ds) ==
    LET present_subsets == {ds[i].subset : i \in 1..Len(ds)}
    IN  [subset \in present_subsets |->
            LET rows == {i \in 1..Len(ds) : ds[i].subset = subset}
            IN  <<SumOver(rows, [i \in rows |-> res[i]]), Cardinality(rows)>>]

\* sum(results_section.values()) / len(results_section), as a rational.
MeanOfValues(m) ==
    LET P == ProdOver(DOMAIN m, [s \in DOMAIN m |-> m[s][2]])
    IN  <<SumOver(DOMAIN m, [s \in DOMAIN m |-> m[s][1] * (P \div m[s][2])]),
          P * Cardinality(DOMAIN m)>>

\* The dict of lines 361-371; an optional value is <<>> (null) or <<value>>.
SummaryDict ==
    [ accuracy |-> accuracy,
      num_prompts |-> Len(results),
      extra_results |-> IF args.dataset = CoreDataset THEN <<results_grouped>> ELSE <<>>,
      section_results |-> IF args.dataset = CoreDataset THEN <<results_section>> ELSE <<>>,
      section_results_mean |-> MeanOfValues(results_section) ]

RunnerInit ==
    /\ args \in RunnerArgs
    /\ dataset \in Datasets
    /\ old_summary \in BOOLEAN
    /\ old_all \in BOOLEAN
    /\ runner_pc = "start"
    /\ dataloader = <<>>
    /\ step = 0
    /\ results = <<>>
    /\ scores_margin = <<>>
    /\ accuracy = <<0, 1>>
    /\ results_grouped = EmptyMap
    /\ results_section = EmptyMap
    /\ bound = {}
    /\ summary = <<>>
    /\ summary_file = InitialFile(old_summary)
    /\ all_file = InitialFile(old_all)
    /\ failed_at = 0

RunnerFail(line) ==
    /\ runner_pc' = "failed"
    /\ failed_at' = line

\* Lines 141-286: configuration checks, model and tokenizer loading, and the
\* DataLoader.  A reference model selects the DPO branch, which raises
\* NotImplementedError (line 227).
Setup ==
    /\ UNCHANGED submit_vars
    /\ runner_pc = "start"
    /\ IF args.ref_model
       THEN /\ RunnerFail(227)
            /\ UNCHANGED dataloader
       ELSE /\ dataloader' = DataLoader(dataset, args.batch_size)
            /\ runner_pc' = "inference"
            /\ UNCHANGED failed_at
    /\ UNCHANGED <<args, dataset, old_summary, old_all, step, results, scores_margin,
                   accuracy, results_grouped, results_section, bound, summary,
                   summary_file, all_file>>

\* Lines 294-314: one iteration of the inference loop.
InferenceStep ==
    /\ UNCHANGED submit_vars
    /\ runner_pc = "inference"
    /\ step < Len(dataloader)
    /\ LET batch == dataloader[step + 1]
           logits == Logits(batch)
       IN  /\ results' = results \o Outcomes(logits)
           /\ scores_margin' = scores_margin \o logits
    /\ step' = step + 1
    /\ UNCHANGED <<args, dataset, old_summary, old_all, runner_pc, dataloader, accuracy,
                   results_grouped, results_section, bound, summary, summary_file,
                   all_file, failed_at>>

\* Lines 316-326: the loop is exhausted; accuracy = sum(results) / len(results)
\* raises ZeroDivisionError when results is empty.
ComputeAccuracy ==
    /\ UNCHANGED submit_vars
    /\ runner_pc = "inference"
    /\ step = Len(dataloader)
    /\ IF Len(results) = 0
       THEN /\ RunnerFail(320)
            /\ UNCHANGED <<accuracy, bound>>
       ELSE /\ accuracy' = <<SumSeq(results), Len(results)>>
            /\ bound' = bound \cup {"accuracy"}
            /\ runner_pc' = "group"
            /\ UNCHANGED failed_at
    /\ UNCHANGED <<args, dataset, old_summary, old_all, dataloader, step, results,
                   scores_margin, results_grouped, results_section, summary,
                   summary_file, all_file>>

\* Lines 328-345: per-subset and per-section results, only for the core
\* dataset.  add_column raises when the column is not as long as the dataset.
Group ==
    /\ UNCHANGED submit_vars
    /\ runner_pc = "group"
    /\ IF args.dataset = CoreDataset
       THEN IF Len(results) # Len(dataset)
            THEN /\ RunnerFail(329)
                 /\ UNCHANGED <<results_grouped, results_section, bound>>
            ELSE /\ results_grouped' = GroupBySubset(results, dataset)
                 /\ results_section' =
                        calculate_scores_per_section(EXAMPLE_COUNTS, SUBSET_MAPPING,
                                                     results_grouped')
                 /\ bound' = bound \cup {"results_grouped", "results_section"}
                 /\ runner_pc' = "output"
                 /\ UNCHANGED failed_at
       ELSE /\ runner_pc' = "output"
            /\ UNCHANGED <<results_grouped, results_section, bound, failed_at>>
    /\ UNCHANGED <<args, dataset, old_summary, old_all, dataloader, step, results,
                   scores_margin, accuracy, summary, summary_file, all_file>>

\* Lines 351-357: the output directory is made and an existing summary file
\* is removed.
PrepareOutput ==
    /\ UNCHANGED submit_vars
    /\ runner_pc = "output"
    /\ summary_file' = IF summary_file.exists THEN AbsentFile ELSE summary_file
    /\ runner_pc' = "open"
    /\ UNCHANGED <<args, dataset, old_summary, old_all, dataloader, step, results,
                   scores_margin, accuracy, results_grouped, results_section, bound,
                   summary, all_file, failed_at>>

\* Line 359: open(output_path, "w") creates the file, empty.
OpenSummary ==
    /\ UNCHANGED submit_vars
    /\ runner_pc = "open"
    /\ summary_file' = [exists |-> TRUE, stale |-> FALSE, lines |-> <<>>]
    /\ runner_pc' = "build"
    /\ UNCHANGED <<args, dataset, old_summary, old_all, dataloader, step, results,
                   scores_margin, accuracy, results_grouped, results_section, bound,
                   summary, all_file, failed_at>>

\* Lines 361-371: the argument of json.dump is evaluated inside the with
\* block.  Line 370 reads results_section unconditionally: UnboundLocalError
\* when it was never assigned, ZeroDivisionError when it is empty.
BuildSummary ==
    /\ UNCHANGED submit_vars
    /\ runner_pc = "build"
    /\ IF "results_section" \notin bound \/ DOMAIN results_section = {}
       THEN /\ RunnerFail(370)
            /\ UNCHANGED summary
       ELSE /\ summary' = <<SummaryDict>>
            /\ runner_pc' = "dump"
            /\ UNCHANGED failed_at
    /\ UNCHANGED <<args, dataset, old_summary, old_all, dataloader, step, results,
                   scores_margin, accuracy, results_grouped, results_section, bound,
                   summary_file, all_file>>

\* Lines 360, 372-373: json.dump writes the object and the file is closed.
DumpSummary ==
    /\ UNCHANGED submit_vars
    /\ runner_pc = "dump"
    /\ summary_file' = [summary_file EXCEPT !.lines = summary]
    /\ runner_pc' = IF args.save_all THEN "save_all" ELSE "done"
    /\ UNCHANGED <<args, dataset, old_summary, old_all, dataloader, step, results,
                   scores_margin, accuracy, results_grouped, results_section, bound,
                   summary, all_file, failed_at>>

\* Lines 376-387: with --save_all, one {"reward_margin": logit} line per
\* element of scores_margin replaces any existing _all.jsonl file.
SaveAll ==
    /\ UNCHANGED submit_vars
    /\ runner_pc = "save_all"
    /\ all_file' = [exists |-> TRUE, stale |-> FALSE,
                    lines |-> [i \in 1..Len(scores_margin) |->
                                  [reward_margin |-> scores_margin[i]]]]
    /\ runner_pc' = "done"
    /\ UNCHANGED <<args, dataset, old_summary, old_all, dataloader, step, results,
                   scores_margin, accuracy, results_grouped, results_section, bound,
                   summary, summary_file, failed_at>>

RunnerNext ==
    \/ Setup
    \/ InferenceStep
    \/ ComputeAccuracy
    \/ Group
    \/ PrepareOutput
    \/ OpenSummary
    \/ BuildSummary
    \/ DumpSummary
    \/ SaveAll


\* ============================================================= Submitter

TemplateFile == "scripts/configs/beaker_eval.yaml"
BonConfigFile == "scripts/configs/eval_bon_configs.yaml"
EvalConfigFile == "scripts/configs/eval_configs.yaml"

\* Model identifiers, as chunk sequences.
ModelIds == { <<"modelA">>, <<"org", "/", "m">>, <<"org", "-", "m">> }

\* The key lists a configuration mapping can have: distinct keys, file order.
KeyLists ==
    UNION { { ks \in [1..n -> ModelIds] : \A i, j \in 1..n : i # j => ks[i] # ks[j] }
            : n \in 0..MaxModels }

\* The entries of the mapping.  An optional key is <<>> (absent) or <<value>>;
\* chat_template is <<>> for null.
\* Two (tokenizer, batch_size) pairs keep the set small.
Entries ==
    { e \in [ dpo : BOOLEAN,
              tokenizer : {"t1", "t2"},
              batch_size : {4, 16},
              chat_template : {<<>>, <<"tulu">>},
              trust_remote_code : BOOLEAN,
              ref_model : {<<>>, <<"ref">>} ] :
        (e.tokenizer = "t1") <=> (e.batch_size = 4) }

NoEntry == [dpo |-> FALSE, tokenizer |-> "", batch_size |-> 0, chat_template |-> <<>>,
            trust_remote_code |-> FALSE, ref_model |-> <<>>]

SubmitArgs ==
    [ eval_on_pref_sets : BOOLEAN,
      eval_on_bon : BOOLEAN,
      upload_to_hub : BOOLEAN,
      model : {<<>>} \cup {<<m>> : m \in ModelIds},
      ref_free : BOOLEAN,
      eval_dpo_only : BOOLEAN,
      eval_rm_only : BOOLEAN ]

EmptyDoc == [description |-> <<>>, name |-> <<>>, gpuCount |-> 0, token |-> FALSE,
             arguments |-> <<>>]

\* str(n) for n >= 0, as a chunk sequence of digits.
Digit == <<"0", "1", "2", "3", "4", "5", "6", "7", "8", "9">>

RECURSIVE Str(_)
Str(n) == IF n < 10 THEN <<Digit[n + 1]>> ELSE Str(n \div 10) \o <<Digit[(n % 10) + 1]>>

\* s.replace("/", "-")
ReplaceSlash(s) == [i \in 1..Len(s) |-> IF s[i] = "/" THEN "-" ELSE s[i]]

\* The filter with the elif branch lost: rm_only excludes nothing.
Excluded_rm_ignored(a, eval_dpo) == a.eval_dpo_only /\ ~eval_dpo

\* Lines 94-100: TRUE iff the entry is skipped (continue).
Excluded(a, eval_dpo) ==
    IF a.eval_dpo_only THEN ~eval_dpo
    ELSE IF a.eval_rm_only THEN eval_dpo
    ELSE FALSE

\* The selection with the dpo test first.
SelectScript_dpo_first(eval_on_bon, eval_dpo) ==
    IF eval_dpo THEN "run_dpo.py"
    ELSE IF eval_on_bon THEN "run_bon.py"
    ELSE "run_rm.py"

\* Lines 102-110.
SelectScript(eval_on_bon, eval_dpo) ==
    IF eval_on_bon THEN "run_bon.py"
    ELSE IF eval_dpo THEN "run_dpo.py"
    ELSE "run_rm.py"

\* Lines 102-113.
ExperimentGroup(eval_on_bon, eval_dpo, eval_on_pref_sets) ==
    (IF eval_on_bon THEN <<"rewardebench-bon">>
     ELSE IF eval_dpo THEN <<"rewardebench-dpo">>
     ELSE <<"rewardebench-seq">>)
    \o (IF eval_on_pref_sets THEN <<"-pref-sets">> ELSE <<>>)

\* Line 118.
JobName(m, group) == ReplaceSlash(<<"rewardbench_eval_for_">> \o m \o <<"_on_">> \o group)

\* The argument string with the --ref_free test lost.
Arguments_ref_free_ignored(a, scr, m, cfg) ==
    <<"python scripts/", scr, " --model ">> \o m
    \o <<" --tokenizer ", cfg.tokenizer>>
    \o <<" --batch_size ">> \o Str(cfg.batch_size)
    \o (IF cfg.chat_template # <<>>
        THEN <<" --chat_template ">> \o cfg.chat_template ELSE <<>>)
    \o (IF cfg.trust_remote_code THEN <<" --trust_remote_code">> ELSE <<>>)
    \o (IF ~a.upload_to_hub THEN <<" --do_not_save">> ELSE <<>>)
    \o (IF a.eval_on_pref_sets THEN <<" --pref_sets">> ELSE <<>>)
    \o (IF cfg.ref_model # <<>> THEN <<" --ref_model ">> \o cfg.ref_model ELSE <<>>)

\* Lines 125-141.
Arguments(a, scr, m, cfg) ==
    <<"python scripts/", scr, " --model ">> \o m
    \o <<" --tokenizer ", cfg.tokenizer>>
    \o <<" --batch_size ">> \o Str(cfg.batch_size)
    \o (IF cfg.chat_template # <<>>
        THEN <<" --chat_template ">> \o cfg.chat_template ELSE <<>>)
    \o (IF cfg.trust_remote_code THEN <<" --trust_remote_code">> ELSE <<>>)
    \o (IF ~a.upload_to_hub THEN <<" --do_not_save">> ELSE <<>>)
    \o (IF a.eval_on_pref_sets THEN <<" --pref_sets">> ELSE <<>>)
    \o (IF cfg.ref_model # <<>> /\ ~a.ref_free
        THEN <<" --ref_model ">> \o cfg.ref_model ELSE <<>>)

\* Line 147.
FileName(name) == <<"beaker_configs/auto_created/">> \o name \o <<".yaml">>

SubmitterInit ==
    /\ sargs \in SubmitArgs
    /\ env_HF_TOKEN \in BOOLEAN
    /\ configs \in KeyLists
    /\ submit_pc = "start"
    /\ files_read = {}
    /\ d1 = EmptyDoc
    /\ models_to_evaluate = <<>>
    /\ idx = 0
    /\ seen = <<>>
    /\ model = <<>>
    /\ model_config = NoEntry
    /\ experiment_group = <<>>
    /\ script = ""
    /\ d = EmptyDoc
    /\ fn = <<>>
    /\ written = <<>>
    /\ submitted = <<>>
    /\ submit_failed_at = 0

SubmitFail(line) ==
    /\ submit_pc' = "failed"
    /\ submit_failed_at' = line

\* The script without the assertion of line 45.
AssertFilters_missing ==
    /\ UNCHANGED runner_vars
    /\ submit_pc = "start"
    /\ submit_pc' = "read_template"
    /\ UNCHANGED <<sargs, env_HF_TOKEN, configs, files_read, d1, models_to_evaluate, idx,
                   seen, model, model_config, experiment_group, script, d, fn, written,
                   submitted, submit_failed_at>>

\* Line 45: the two filters exclude each other.
AssertFilters ==
    /\ UNCHANGED runner_vars
    /\ submit_pc = "start"
    /\ IF sargs.eval_dpo_only /\ sargs.eval_rm_only
       THEN SubmitFail(45)
       ELSE /\ submit_pc' = "read_template"
            /\ UNCHANGED submit_failed_at
    /\ UNCHANGED <<sargs, env_HF_TOKEN, configs, files_read, d1, models_to_evaluate, idx,
                   seen, model, model_config, experiment_group, script, d, fn, written,
                   submitted>>

\* Lines 49-50: the job template is read.
ReadTemplate ==
    /\ UNCHANGED runner_vars
    /\ submit_pc = "read_template"
    /\ files_read' = files_read \cup {TemplateFile}
    /\ d1' = EmptyDoc
    /\ submit_pc' = "read_configs"
    /\ UNCHANGED <<sargs, env_HF_TOKEN, configs, models_to_evaluate, idx, seen, model,
                   model_config, experiment_group, script, d, fn, written, submitted,
                   submit_failed_at>>

\* Lines 60-66: the model-config mapping is read, from the best-of-N file
\* in best-of-N mode.
ReadConfigs ==
    /\ UNCHANGED runner_vars
    /\ submit_pc = "read_configs"
    /\ files_read' = files_read \cup
           {IF sargs.eval_on_bon THEN BonConfigFile ELSE EvalConfigFile}
    /\ submit_pc' = "assert_modes"
    /\ UNCHANGED <<sargs, env_HF_TOKEN, configs, d1, models_to_evaluate, idx, seen, model,
                   model_config, experiment_group, script, d, fn, written, submitted,
                   submit_failed_at>>

\* Line 70: preference-set mode and best-of-N mode exclude each other.
AssertModes ==
    /\ UNCHANGED runner_vars
    /\ submit_pc = "assert_modes"
    /\ IF sargs.eval_on_pref_sets /\ sargs.eval_on_bon
       THEN SubmitFail(70)
       ELSE /\ submit_pc' = "token"
            /\ UNCHANGED submit_failed_at
    /\ UNCHANGED <<sargs, env_HF_TOKEN, configs, files_read, d1, models_to_evaluate, idx,
                   seen, model, model_config, experiment_group, script, d, fn, written,
                   submitted>>

\* The script without the assertion of line 73.
Token_unchecked ==
    /\ UNCHANGED runner_vars
    /\ submit_pc = "token"
    /\ d1' = [d1 EXCEPT !.gpuCount = 1, !.token = env_HF_TOKEN]
    /\ submit_pc' = "select"
    /\ UNCHANGED <<sargs, env_HF_TOKEN, configs, files_read, models_to_evaluate, idx,
                   seen, model, model_config, experiment_group, script, d, fn, written,
                   submitted, submit_failed_at>>

\* Lines 72-79: the credential is required, then the template is filled in.
Token ==
    /\ UNCHANGED runner_vars
    /\ submit_pc = "token"
    /\ IF ~env_HF_TOKEN
       THEN /\ SubmitFail(73)
            /\ UNCHANGED d1
       ELSE /\ d1' = [d1 EXCEPT !.gpuCount = 1, !.token = TRUE]
            /\ submit_pc' = "select"
            /\ UNCHANGED submit_failed_at
    /\ UNCHANGED <<sargs, env_HF_TOKEN, configs, files_read, models_to_evaluate, idx,
                   seen, model, model_config, experiment_group, script, d, fn, written,
                   submitted>>

\* Lines 82-88: all keys, or the one model named on the command line.
SelectModels ==
    /\ UNCHANGED runner_vars
    /\ submit_pc = "select"
    /\ IF sargs.model # <<>>
       THEN IF \E i \in 1..Len(configs) : configs[i] = sargs.model[1]
            THEN /\ models_to_evaluate' = <<sargs.model[1]>>
                 /\ submit_pc' = "loop"
                 /\ UNCHANGED submit_failed_at
            ELSE /\ SubmitFail(88)
                 /\ models_to_evaluate' = configs
       ELSE /\ models_to_evaluate' = configs
            /\ submit_pc' = "loop"
            /\ UNCHANGED submit_failed_at
    /\ UNCHANGED <<sargs, env_HF_TOKEN, configs, files_read, d1, idx, seen, model,
                   model_config, experiment_group, script, d, fn, written, submitted>>

\* Lines 90-141: the for loop takes the next entry; its value configs[model]
\* is first read here (line 91).  An excluded entry is skipped (continue);
\* otherwise the script is selected and the document built.
Iterate ==
    /\ UNCHANGED runner_vars
    /\ submit_pc = "loop"
    /\ idx < Len(models_to_evaluate)
    /\ \E cfg \in Entries :
         LET m == models_to_evaluate[idx + 1]
             eval_dpo == cfg.dpo
             group == ExperimentGroup(sargs.eval_on_bon, eval_dpo, sargs.eval_on_pref_sets)
             scr == SelectScript(sargs.eval_on_bon, eval_dpo)
             name == JobName(m, group)
         IN  /\ model' = m
             /\ model_config' = cfg
             /\ idx' = idx + 1
             /\ seen' = Append(seen, eval_dpo)
             /\ IF Excluded(sargs, eval_dpo)
                THEN UNCHANGED <<submit_pc, experiment_group, script, d>>
                ELSE /\ experiment_group' = group
                     /\ script' = scr
                     /\ d' = [d1 EXCEPT !.description = name, !.name = name,
                                        !.arguments = Arguments(sargs, scr, m, cfg)]
                     /\ submit_pc' = "write"
    /\ UNCHANGED <<sargs, env_HF_TOKEN, configs, files_read, d1, models_to_evaluate, fn,
                   written, submitted, submit_failed_at>>

\* Lines 143-150: the document is written to its file.
WriteDoc ==
    /\ UNCHANGED runner_vars
    /\ submit_pc = "write"
    /\ fn' = FileName(d.name)
    /\ written' = Append(written, fn')
    /\ submit_pc' = "submit"
    /\ UNCHANGED <<sargs, env_HF_TOKEN, configs, files_read, d1, models_to_evaluate, idx,
                   seen, model, model_config, experiment_group, script, d, submitted,
                   submit_failed_at>>

\* Lines 152-153: beaker experiment create <fn>, not waited for.
Submit ==
    /\ UNCHANGED runner_vars
    /\ submit_pc = "submit"
    /\ submitted' = Append(submitted, fn)
    /\ submit_pc' = "loop"
    /\ UNCHANGED <<sargs, env_HF_TOKEN, configs, files_read, d1, models_to_evaluate, idx,
                   seen, model, model_config, experiment_group, script, d, fn, written,
                   submit_failed_at>>

\* The for loop is exhausted and the script ends.
Finish ==
    /\ UNCHANGED runner_vars
    /\ submit_pc = "loop"
    /\ idx = Len(models_to_evaluate)
    /\ submit_pc' = "done"
    /\ UNCHANGED <<sargs, env_HF_TOKEN, configs, files_read, d1, models_to_evaluate, idx,
                   seen, model, model_config, experiment_group, script, d, fn, written,
                   submitted, submit_failed_at>>

SubmitterNext ==
    \/ AssertFilters
    \/ ReadTemplate
    \/ ReadConfigs
    \/ AssertModes
    \/ Token
    \/ SelectModels
    \/ Iterate
    \/ WriteDoc
    \/ Submit
    \/ Finish

\* ======================================================== specifications

RunnerIdle ==
    /\ args = [dataset |-> CoreDataset, ref_model |-> FALSE, batch_size |-> 1,
               save_all |-> FALSE]
    /\ dataset = <<>>
    /\ old_summary = FALSE
    /\ old_all = FALSE
    /\ runner_pc = "idle"
    /\ dataloader = <<>>
    /\ step = 0
    /\ results = <<>>
    /\ scores_margin = <<>>
    /\ accuracy = <<0, 1>>
    /\ results_grouped = EmptyMap
    /\ results_section = EmptyMap
    /\ bound = {}
    /\ summary = <<>>
    /\ summary_file = AbsentFile
    /\ all_file = AbsentFile
    /\ failed_at = 0

SubmitterIdle ==
    /\ sargs = [eval_on_pref_sets |-> FALSE, eval_on_bon |-> FALSE, upload_to_hub |-> TRUE,
                model |-> <<>>, ref_free |-> FALSE, eval_dpo_only |-> FALSE,
                eval_rm_only |-> FALSE]
    /\ env_HF_TOKEN = FALSE
    /\ configs = <<>>
    /\ submit_pc = "idle"
    /\ files_read = {}
    /\ d1 = EmptyDoc
    /\ models_to_evaluate = <<>>
    /\ idx = 0
    /\ seen = <<>>
    /\ model = <<>>
    /\ model_config = NoEntry
    /\ experiment_group = <<>>
    /\ script = ""
    /\ d = EmptyDoc
    /\ fn = <<>>
    /\ written = <<>>
    /\ submitted = <<>>
    /\ submit_failed_at = 0

RunnerSpecInit ==
    /\ RunnerInit
    /\ SubmitterIdle

SubmitterSpecInit ==
    /\ SubmitterInit
    /\ RunnerIdle

RunnerSpec == RunnerSpecInit /\ [][RunnerNext]_vars

SubmitterSpec == SubmitterSpecInit /\ [][SubmitterNext]_vars


\* ================================================================ claims

\* The runner's inference loop has been left (the run did not stop at the
\* DPO branch before it).
InferenceOver == runner_pc \notin {"start", "inference"} /\ failed_at # 227

\* C1: for every example i the recorded outcome is 1 iff its recorded margin
\* is strictly greater than 0; a zero or negative margin is recorded as 0.
\* Margins [2, -1, 0, 5] give outcomes [1, 0, 0, 1].
C1_OutcomeIffPositiveMargin ==
    /\ \A i \in 1..Min(Len(results), Len(scores_margin)) :
          /\ results[i] \in {0, 1}
          /\ (results[i] = 1) <=> (scores_margin[i] > 0)
    /\ scores_margin = <<2, -1, 0, 5>> => results = <<1, 0, 0, 1>>

C1_Witness ==
    /\ runner_pc = "done"
    /\ scores_margin = <<2, -1, 0, 5>>
    /\ results = <<1, 0, 0, 1>>

\* C2: outcomes and margins grow in lockstep: after every batch both lengths
\* equal the number of examples consumed so far, and after the loop both
\* equal the dataset length, also when the last batch is partial.
C2_Lockstep ==
    /\ Len(results) = Len(scores_margin)
    /\ Len(results) = Min(step * args.batch_size, Len(dataset))
    /\ InferenceOver => Len(results) = Len(dataset)

\* A run whose last batch is partial has ended.
C2_Witness ==
    /\ runner_pc = "done"
    /\ Len(dataset) = 4
    /\ args.batch_size = 3
    /\ step = 2
    /\ Len(results) = 4
    /\ Len(scores_margin) = 4

\* C3: batching preserves dataset order: after the loop the i-th outcome and
\* the i-th margin are those of the i-th example, the per-subset grouping
\* counts each example's own outcome, and the JSONL lines are in dataset
\* order.
C3_DatasetOrder ==
    /\ InferenceOver =>
          /\ Len(scores_margin) = Len(dataset)
          /\ Len(results) = Len(dataset)
          /\ \A i \in 1..Len(dataset) :
                /\ scores_margin[i] = dataset[i].margin
                /\ results[i] = IF dataset[i].margin > 0 THEN 1 ELSE 0
    /\ "results_grouped" \in bound =>
          \A s \in DOMAIN results_grouped :
              results_grouped[s] =
                  <<Cardinality({i \in 1..Len(dataset) :
                                    dataset[i].subset = s /\ dataset[i].margin > 0}),
                    Cardinality({i \in 1..Len(dataset) : dataset[i].subset = s})>>
    /\ (all_file.exists /\ ~all_file.stale) =>
          /\ Len(all_file.lines) = Len(dataset)
          /\ \A i \in 1..Len(dataset) :
                all_file.lines[i].reward_margin = dataset[i].margin

\* A core run over several batches of examples with different margins has
\* written its JSONL file.
C3_Witness ==
    /\ runner_pc = "done"
    /\ args.dataset = CoreDataset
    /\ args.batch_size = 3
    /\ Len(dataset) = 4
    /\ dataset[1].margin = 5
    /\ dataset[4].margin = -1
    /\ Len(all_file.lines) = 4
    /\ all_file.lines[1].reward_margin = 5
    /\ all_file.lines[4].reward_margin = -1

\* C4: the overall-accuracy computation is guarded against an empty result
\* set: sum(results) / len(results) is never evaluated with len(results) = 0
\* (in the model, that evaluation is the ZeroDivisionError of line 320).
C4_EmptyResultGuarded == ~(failed_at = 320 /\ Len(results) = 0)

\* C5: output files are written last: no existing output file is deleted and
\* none is created or opened before the whole summary has been computed, and
\* a run that fails leaves the output paths untouched.
C5_OutputsWrittenLast ==
    /\ summary_file # InitialFile(old_summary) => summary # <<>>
    /\ all_file # InitialFile(old_all) => summary # <<>>
    /\ runner_pc = "failed" =>
          /\ summary_file = InitialFile(old_summary)
          /\ all_file = InitialFile(old_all)

\* C6: for a dataset other than the core benchmark, a run whose inference
\* completes on a non-empty dataset ends with a complete summary file whose
\* extra_results and section_results are null; it does not fail while
\* building the summary.
C6_NonCoreSummaryWritten ==
    ( /\ args.dataset # CoreDataset
      /\ ~args.ref_model
      /\ Len(dataset) > 0
      /\ runner_pc \in {"done", "failed"} )
    => /\ runner_pc = "done"
       /\ failed_at # 370
       /\ Len(summary_file.lines) = 1
       /\ summary_file.lines[1].extra_results = <<>>
       /\ summary_file.lines[1].section_results = <<>>

\* ---- Sweep Submitter

\* The current entry passed the filter and its document is built.
EntryProcessed == submit_pc \in {"write", "submit"}

Contains(s, sub) ==
    \E i \in 1..(Len(s) - Len(sub) + 1) : SubSeq(s, i, i + Len(sub) - 1) = sub

HasFlag(s, flag) == \E i \in 1..Len(s) : s[i] = flag

\* C7: for every processed entry exactly one script is selected: run_bon.py
\* in best-of-N mode (even for a dpo entry), otherwise run_dpo.py for a dpo
\* entry, otherwise run_rm.py.
C7_ScriptSelection ==
    EntryProcessed =>
        /\ sargs.eval_on_bon => script = "run_bon.py"
        /\ (~sargs.eval_on_bon /\ model_config.dpo) => script = "run_dpo.py"
        /\ (~sargs.eval_on_bon /\ ~model_config.dpo) => script = "run_rm.py"
        /\ SubSeq(d.arguments, 1, 2) = <<"python scripts/", script>>

\* A dpo entry is processed in best-of-N mode.
C7_Witness ==
    /\ submit_pc = "write"
    /\ sargs.eval_on_bon
    /\ model_config.dpo
    /\ script = "run_bon.py"

\* The entries taken so far that the run-mode filter does not exclude.
NonExcluded ==
    Cardinality({i \in 1..Len(seen) :
                    /\ ~(sargs.eval_dpo_only /\ ~seen[i])
                    /\ ~(sargs.eval_rm_only /\ seen[i])})

\* C8: an entry excluded by the run-mode filter produces no document and no
\* submission; every other entry produces exactly one document followed by
\* exactly one submission of that document, so at the end the documents
\* written, the submissions and the non-excluded entries are equally many.
C8_OneDocumentOneSubmission ==
    /\ submit_pc = "write" =>
          Len(written) = NonExcluded - 1 /\ Len(submitted) = NonExcluded - 1
    /\ submit_pc = "submit" =>
          Len(written) = NonExcluded /\ Len(submitted) = NonExcluded - 1
    /\ submit_pc \in {"loop", "done"} =>
          Len(written) = NonExcluded /\ Len(submitted) = NonExcluded
    /\ submit_pc = "done" => Len(seen) = Len(models_to_evaluate)
    /\ Len(submitted) <= Len(written)
    /\ submitted = SubSeq(written, 1, Len(submitted))

\* A sweep of two entries ends with one of them excluded by rm_only.
C8_Witness ==
    /\ submit_pc = "done"
    /\ sargs.eval_rm_only
    /\ seen = <<TRUE, FALSE>>
    /\ Len(written) = 1
    /\ Len(submitted) = 1

ScenarioEntry == [dpo |-> FALSE, tokenizer |-> "t1", batch_size |-> 4,
                  chat_template |-> <<>>, trust_remote_code |-> FALSE,
                  ref_model |-> <<>>]

ScenarioArgs == [eval_on_pref_sets |-> FALSE, eval_on_bon |-> FALSE,
                 upload_to_hub |-> TRUE, model |-> <<>>, ref_free |-> FALSE,
                 eval_dpo_only |-> FALSE, eval_rm_only |-> FALSE]

ScenarioRun ==
    /\ submit_pc = "done"
    /\ configs = << <<"modelA">> >>
    /\ model_config = ScenarioEntry
    /\ sargs = ScenarioArgs

BatchSizeText(n) == IF n = 4 THEN <<"4">> ELSE <<"1", "6">>

\* C9: the argument string of every generated document contains --model,
\* --tokenizer and --batch_size with the entry's values, and each optional
\* flag exactly when its condition holds; the modelA scenario generates one
\* document, for run_rm.py, without --chat_template and --trust_remote_code.
C9_ArgumentString ==
    /\ EntryProcessed =>
          LET a == d.arguments
              cfg == model_config
          IN  /\ Contains(a, <<" --model ">> \o model)
              /\ Contains(a, <<" --tokenizer ", cfg.tokenizer>>)
              /\ Contains(a, <<" --batch_size ">> \o BatchSizeText(cfg.batch_size))
              /\ HasFlag(a, " --chat_template ") <=> cfg.chat_template # <<>>
              /\ cfg.chat_template # <<>> =>
                    Contains(a, <<" --chat_template ">> \o cfg.chat_template)
              /\ HasFlag(a, " --trust_remote_code") <=> cfg.trust_remote_code
              /\ HasFlag(a, " --pref_sets") <=> sargs.eval_on_pref_sets
              /\ HasFlag(a, " --ref_model ") <=>
                    (cfg.ref_model # <<>> /\ ~sargs.ref_free)
              /\ (cfg.ref_model # <<>> /\ ~sargs.ref_free) =>
                    Contains(a, <<" --ref_model ">> \o cfg.ref_model)
    /\ ScenarioRun =>
          /\ Len(written) = 1
          /\ script = "run_rm.py"
          /\ d.arguments = <<"python scripts/", "run_rm.py", " --model ", "modelA",
                             " --tokenizer ", "t1", " --batch_size ", "4">>

C9_Witness ==
    /\ ScenarioRun
    /\ Len(written) = 1
    /\ ~HasFlag(d.arguments, " --chat_template ")
    /\ ~HasFlag(d.arguments, " --trust_remote_code")
    /\ HasFlag(d.arguments, "run_rm.py")

\* C10: when dpo_only and rm_only are both requested the script fails at
\* its first check: no configuration file is read, no document written and
\* no job submitted.
C10_ConflictFailsBeforeReading ==
    (sargs.eval_dpo_only /\ sargs.eval_rm_only) =>
        /\ submit_pc \in {"start", "failed"}
        /\ submit_pc = "failed" => submit_failed_at = 45
        /\ files_read = {}
        /\ written = <<>>
        /\ submitted = <<>>

C10_Witness ==
    /\ sargs.eval_dpo_only
    /\ sargs.eval_rm_only
    /\ submit_pc = "failed"
    /\ submit_failed_at = 45
    /\ files_read = {}


\* --model names a model that is not a key of the configuration mapping.
NamedModelAbsent ==
    /\ sargs.model # <<>>
    /\ \A i \in 1..Len(configs) : configs[i] # sargs.model[1]

\* C11: when HF_TOKEN is missing from the environment, or when the model
\* named by --model is absent from the configuration mapping, the script
\* never enters its loop: no document is written and no submission command
\* is invoked, and a run that has stopped has failed.
C11_FailsBeforeAnyDocument ==
    (~env_HF_TOKEN \/ NamedModelAbsent) =>
        /\ written = <<>>
        /\ submitted = <<>>
        /\ submit_pc \notin {"loop", "write", "submit", "done"}
        /\ ~env_HF_TOKEN => submit_failed_at # 88

\* A run with otherwise valid flags has stopped at the missing credential.
C11_Witness ==
    /\ ~env_HF_TOKEN
    /\ ~(sargs.eval_dpo_only /\ sargs.eval_rm_only)
    /\ ~(sargs.eval_on_pref_sets /\ sargs.eval_on_bon)
    /\ Len(configs) = MaxModels
    /\ submit_pc = "failed"
    /\ submit_failed_at = 73
    /\ written = <<>>
    /\ submitted = <<>>


\* C12: each job document is written to a uniquely named file: within one
\* run the documents of any two distinct entries of the mapping go to
\* distinct paths (every entry is written at most once, so any two writes
\* are of distinct entries).
C12_DistinctFilePaths ==
    \A i, j \in 1..Len(written) : i # j => written[i] # written[j]

====
